---- MODULE Spec2Model ----
(***************************************************************************)
(* monitor-wordpress-dependencies-action: the run() orchestrator of        *)
(* src/index.js as a state machine.  One action per step of run(); every   *)
(* external call (exec, fileExists, readFromDisk, octokit) is a            *)
(* nondeterministic choice of its outcome.  The issue's comments outlive a *)
(* run, so that a sequence of runs on the same pull request is followed.   *)
(***************************************************************************)
EXTENDS Integers, Sequences, FiniteSets, TLC

(* ------------------------------ bounds --------------------------------- *)
\* number of runs of the action on the same pull request
MaxRuns == 2

(* --------------------------- values of the code ------------------------ *)
\* JavaScript's undefined, and the empty string of an unset input: both falsy
Undefined == "undefined"
Empty == ""
Truthy(x) == x \notin {Undefined, Empty}

\* let commentId (undefined) and commentId = null: no comment id is held; ids are positive
NoComment == 0

\* context.eventName; "issue_comment" stands for every kind the code does not name
EventNames == {"push", "pull_request", "pull_request_target", "issue_comment"}

\* a slip: every event but a push is read as a pull request
IsPullRequestEvent_AnyButPush(e) == e # "push"

\* line 29: the events whose payload carries a pull request
IsPullRequestEvent(e) == e = "pull_request" \/ e = "pull_request_target"

\* context.payload: the fields run() reads; the base ref may be missing from it
Payloads ==
    [before : {Undefined, "sha0"}, ref : {Undefined, "refs/heads/main"},
     pr_base_sha : {Undefined, "sha1"}, pr_base_ref : {Undefined, "main"}]

\* the payloads of an event; a push whose event file is missing has the empty
\* payload {}, with neither before nor ref
PayloadsOf(e) ==
    IF e = "push"
    THEN {p \in Payloads : (p.before = "sha0" \/ p.ref = Undefined)
                           /\ p.pr_base_sha = Undefined /\ p.pr_base_ref = Undefined}
    ELSE IF IsPullRequestEvent(e)
    THEN {p \in Payloads : p.pr_base_sha = "sha1" /\ p.before = Undefined
                           /\ p.ref = Undefined}
    ELSE {p \in Payloads : p.before = Undefined /\ p.ref = Undefined
                           /\ p.pr_base_sha = Undefined /\ p.pr_base_ref = Undefined}

\* the three lockfiles fileExists is asked about
LockFiles == {"yarn.lock", "pnpm-lock.yaml", "package-lock.json"}

\* getInput('build-script') || 'build'
buildScript == "build"

\* getInput('cwd') and getInput('clean-script'): unset, or set
CwdInputs == {Empty, "packages/app"}
CleanInputs == {Empty, "clean"}

\* the text the comment search looks for, and the other fixed parts of the report
Marker == "<sub>monitor-wordpress-dependencies-action"
Heading == "#### Monitor WordPress Dependencies Action"
Intro == "monitor-wordpress-dependencies-action has detected some changed script dependencies"

(* ------------------------------- state --------------------------------- *)
VARIABLES
    pc,               \* position of the run in run()
    runs,             \* runs started so far
    eventName,        \* context.eventName
    payload,          \* context.payload
    tokenType,        \* user type of the identity behind repo-token
    priorRunsClean,   \* whether every earlier run completed with no comment-API call failing
    baseSha, baseRef, \* the resolved base revision
    cwd,              \* process.cwd()
    worktree,         \* what the working tree was last hard-reset to
    cleanScript,      \* getInput('clean-script'), Undefined before it is read
    yarnLock, pnpmLock, packageLock,  \* what fileExists last answered (FALSE before it is asked)
    packageManager, installScript,
    newSizes, oldSizes, diff, body,
    commentId, outputRawMarkdown,
    comments,         \* the issue's comments, oldest first
    reviews,          \* the reviews this run submitted to the pull request
    failed,           \* message given to setFailed, or NotFailed
    lastCmd,          \* the last command given to exec in this run, and whether it succeeded
    lastLog,          \* the last line given to console.log in this run
    calls,            \* the comment-API calls of this run, in order
    lostTrack,        \* whether a search or an edit of the report failed in some run so far
    printed           \* the report body printed raw by this run, or <<>>

vars == <<pc, runs, eventName, payload, tokenType, priorRunsClean, baseSha, baseRef, cwd,
          worktree, cleanScript, yarnLock, pnpmLock, packageLock, packageManager, installScript,
          newSizes, oldSizes, diff, body, commentId, outputRawMarkdown, comments,
          reviews, failed, lastCmd, lastLog, calls, lostTrack, printed>>

eventVars == <<runs, eventName, payload, tokenType, priorRunsClean>>
baseVars == <<baseSha, baseRef>>
treeVars == <<cwd, worktree, cleanScript>>
detectVars == <<yarnLock, pnpmLock, packageLock, packageManager, installScript>>
sizeVars == <<newSizes, oldSizes, diff, body>>
issueVars == <<comments, reviews>>
reportVars == <<commentId, outputRawMarkdown, calls, lostTrack, printed>>

(* ------------------------- package-manager rule ------------------------ *)
\* lines 55-65: the manager and install command for the lockfiles found
DetectCurrent(yarn, pnpm, npmLock) ==
    IF yarn THEN <<"yarn", <<"yarn", "--frozen-lockfile">>>>
    ELSE IF pnpm THEN <<"pnpm", <<"pnpm", "install", "--frozen-lockfile">>>>
    ELSE IF npmLock THEN <<"npm", <<"npm", "ci">>>>
    ELSE <<"npm", <<"npm", "install">>>>

\* a slip: pnpm-lock.yaml is looked at before yarn.lock
DetectBase_PnpmFirst(yarn, pnpm, npmLock) ==
    IF pnpm THEN <<"pnpm", <<"pnpm", "install", "--frozen-lockfile">>>>
    ELSE IF yarn THEN <<"yarn", <<"yarn", "--frozen-lockfile">>>>
    ELSE IF npmLock THEN <<"npm", <<"npm", "ci">>>>
    ELSE <<"npm", <<"npm", "install">>>>

\* lines 124-134: the same rule, written out a second time for the base revision
DetectBase(yarn, pnpm, npmLock) ==
    IF yarn THEN <<"yarn", <<"yarn", "--frozen-lockfile">>>>
    ELSE IF pnpm THEN <<"pnpm", <<"pnpm", "install", "--frozen-lockfile">>>>
    ELSE IF npmLock THEN <<"npm", <<"npm", "ci">>>>
    ELSE <<"npm", <<"npm", "install">>>>

(* ------------------------------ commands ------------------------------- *)
NoCmd == <<>>
InstallCmd == installScript
BuildCmd == <<packageManager, "run", buildScript>>
RestoreCmd == <<"git", "reset", "--hard">>
FetchRefCmd == <<"git", "fetch", "-n", "origin", baseRef>>
FetchShaCmd == <<"git", "fetch", "-n", "origin", baseSha>>
FetchAllCmd == <<"git", "fetch", "-n">>
ResetRefCmd == <<"git", "reset", "--hard", baseRef>>
ResetShaCmd == <<"git", "reset", "--hard", baseSha>>
\* a slip: the clean script is always run with npm
CleanCmd_Npm(script) == <<"npm", "run", script>>

\* line 114: the clean script, run with the package manager held at that point
CleanCmd(script) == <<packageManager, "run", script>>

\* setFailed was not called
NotFailed == <<>>

\* the message of the error exec throws for a command that fails
ExecError(words) == <<"The process failed:">> \o words
UnsupportedError == <<"Unsupported eventName in github.context">>

\* the catch of the main wrapper: setFailed(e.message)
Throw(message) ==
    /\ pc' = "failed"
    /\ failed' = message

\* a slip: the failure of a command is ignored and the run goes on
ExecStep_IgnoringFailure(here, words, next) ==
    /\ pc = here
    /\ \E ok \in BOOLEAN : lastCmd' = <<words, ok>>
    /\ pc' = next
    /\ UNCHANGED failed

\* await exec(words) outside any try: the command succeeds, or exec throws
ExecStep(here, words, next) ==
    /\ pc = here
    /\ \E ok \in BOOLEAN :
          /\ lastCmd' = <<words, ok>>
          /\ IF ok THEN pc' = next /\ UNCHANGED failed
                   ELSE Throw(ExecError(words))

(* ----------------------- snapshots and their diff ---------------------- *)
\* a snapshot maps each asset found to its set of dependencies
AssetOrder == <<"a.js">>
Snapshots == { <<>>, [a \in {"a.js"} |-> {"wp-element"}] }

\* newSizes and oldSizes before readFromDisk has returned
NotRead == [unread |-> TRUE]

\* plugin.getDiff(oldSizes, newSizes): one record per asset of either snapshot
StatusOf(a, old, new) ==
    IF a \notin DOMAIN old THEN "added"
    ELSE IF a \notin DOMAIN new THEN "removed"
    ELSE IF old[a] # new[a] THEN "changed"
    ELSE "unchanged"

getDiff(old, new) ==
    LET present == SelectSeq(AssetOrder, LAMBDA a : a \in (DOMAIN old \cup DOMAIN new))
    IN  [i \in 1..Len(present) |->
            [asset |-> present[i], status |-> StatusOf(present[i], old, new)]]

\* diffTable(diff, options): the rows of the report, an asset and its status each
RECURSIVE diffTable(_)
diffTable(d) ==
    IF d = <<>> THEN <<>>
    ELSE <<Head(d).asset, Head(d).status>> \o diffTable(Tail(d))

\* a slip: the body is written without the closing marker
CommentBody_NoMarker(markdownDiff) == <<Heading, Intro>> \o markdownDiff

\* lines 163-172: the body of the comment
CommentBody(markdownDiff) == <<Heading, Intro>> \o markdownDiff \o <<Marker>>

\* line 184: /<sub>monitor-wordpress-dependencies-action/.test(c.body)
HasMarker(text) == \E i \in 1..Len(text) : text[i] = Marker

\* a slip: the scan takes the newest Bot comment, marker or not
RECURSIVE ScanComments_AnyBot(_, _)
ScanComments_AnyBot(listing, i) ==
    IF i = 0 THEN NoComment
    ELSE IF listing[i].type = "Bot" THEN listing[i].id
    ELSE ScanComments_AnyBot(listing, i - 1)

\* a slip: the scan runs from the start of the listing and takes the oldest match
ScanComments_OldestFirst(listing, i) ==
    LET matches == {k \in 1..i : listing[k].type = "Bot" /\ HasMarker(listing[k].body)}
    IN  IF matches = {} THEN NoComment
        ELSE listing[CHOOSE k \in matches : \A j \in matches : k <= j].id

\* lines 182-188: the scan of the listing from its end for a Bot comment with the marker
RECURSIVE ScanComments(_, _)
ScanComments(listing, i) ==
    IF i = 0 THEN NoComment
    ELSE IF listing[i].type = "Bot" /\ HasMarker(listing[i].body) THEN listing[i].id
    ELSE ScanComments(listing, i - 1)

(* ------------------------------ the run -------------------------------- *)
\* the issue before the first run: empty, or holding the report of an earlier run,
\* a person's comment that quotes the marker and another bot's comment
InitialComments ==
    { <<>>,
      << [id |-> 1, type |-> "Bot", body |-> <<Heading, Intro, Marker>>],
         [id |-> 2, type |-> "User", body |-> <<"please review", Marker>>],
         [id |-> 3, type |-> "Bot", body |-> <<"coverage report">>] >> }

Init ==
    /\ pc = "resolve"
    /\ runs = 1
    /\ eventName \in EventNames
    /\ payload \in PayloadsOf(eventName)
    /\ tokenType \in {"Bot", "User"}
    /\ priorRunsClean = TRUE
    /\ baseSha = Undefined /\ baseRef = Undefined
    /\ cwd = "workspace"
    /\ worktree = "head"
    /\ cleanScript = Undefined
    /\ yarnLock = FALSE /\ pnpmLock = FALSE /\ packageLock = FALSE
    /\ packageManager = Undefined /\ installScript = <<>>
    /\ newSizes = NotRead /\ oldSizes = NotRead
    /\ diff = <<>> /\ body = <<>>
    /\ commentId = NoComment /\ outputRawMarkdown = FALSE
    /\ comments \in InitialComments
    /\ reviews = <<>>
    /\ failed = NotFailed
    /\ lastCmd = NoCmd
    /\ lastLog = Undefined
    /\ calls = <<>>
    /\ lostTrack = FALSE
    /\ printed = <<>>

\* lines 23-39: the base revision of the event, or the unsupported-event error
Resolve ==
    /\ pc = "resolve"
    /\ IF eventName = "push"
       THEN /\ baseSha' = payload.before
            /\ baseRef' = payload.ref
            /\ lastLog' = "Pushed new commit on top of"
            /\ pc' = "chdir"
            /\ UNCHANGED failed
       ELSE IF IsPullRequestEvent(eventName)
       THEN /\ baseSha' = payload.pr_base_sha
            /\ baseRef' = payload.pr_base_ref
            /\ lastLog' = "PR is targeted at"
            /\ pc' = "chdir"
            /\ UNCHANGED failed
       ELSE /\ Throw(UnsupportedError)
            /\ UNCHANGED <<baseSha, baseRef, lastLog>>
    /\ UNCHANGED <<eventVars, treeVars, detectVars, sizeVars, issueVars, reportVars, lastCmd>>

\* line 41: if (getInput('cwd')) process.chdir(getInput('cwd'))
Chdir ==
    /\ pc = "chdir"
    /\ \E input \in CwdInputs : cwd' = IF Truthy(input) THEN input ELSE cwd
    /\ pc' = "detect_current"
    /\ UNCHANGED <<eventVars, baseVars, worktree, cleanScript, detectVars, sizeVars,
                   issueVars, reportVars, failed, lastCmd, lastLog>>

\* lines 51-65: the lockfile checks, each answer true or false as the working tree has
\* it, and the package manager of the current revision
DetectCurrentStep ==
    /\ pc = "detect_current"
    /\ yarnLock' \in BOOLEAN
    /\ pnpmLock' \in BOOLEAN
    /\ packageLock' \in BOOLEAN
    /\ packageManager' = DetectCurrent(yarnLock', pnpmLock', packageLock')[1]
    /\ installScript' = DetectCurrent(yarnLock', pnpmLock', packageLock')[2]
    /\ pc' = "install_current"
    /\ UNCHANGED <<eventVars, baseVars, treeVars, sizeVars, issueVars, reportVars,
                   failed, lastCmd, lastLog>>

\* lines 67-70
InstallCurrent ==
    /\ ExecStep("install_current", InstallCmd, "build_current")
    /\ lastLog' = "Installing using"
    /\ UNCHANGED <<eventVars, baseVars, treeVars, detectVars, sizeVars, issueVars, reportVars>>

\* lines 72-75
BuildCurrent ==
    /\ ExecStep("build_current", BuildCmd, "reset_current")
    /\ lastLog' = "Building using"
    /\ UNCHANGED <<eventVars, baseVars, treeVars, detectVars, sizeVars, issueVars, reportVars>>

\* line 78
ResetCurrent ==
    /\ ExecStep("reset_current", RestoreCmd, "read_current")
    /\ UNCHANGED <<eventVars, baseVars, treeVars, detectVars, sizeVars, issueVars,
                   reportVars, lastLog>>

(* ------------------------- checkout of the base ------------------------ *)
\* lines 83-89: a fetch by ref that succeeded goes on to the reset, a failed one to the sha
AfterFetchRef(ok) == IF ok THEN "reset_ref" ELSE "fetch_sha"

\* a slip: a failed fetch by sha is tried again
AfterFetchSha_Retry(ok) == IF ok THEN "reset_ref" ELSE "fetch_sha"

\* a slip: the bulk fetch follows the fetch by sha whatever its outcome
AfterFetchSha_AlwaysBulk(ok) == "fetch_all"

\* lines 89-94: a fetch by sha that succeeded goes on to the reset, a failed one to the bulk fetch
AfterFetchSha(ok) == IF ok THEN "reset_ref" ELSE "fetch_all"

\* a slip: the failure of the reset to the ref is swallowed
AfterResetRef_Swallowed(ok) == "clean"

\* lines 103-108: a reset to the ref that failed is followed by the reset to the sha
AfterResetRef(ok) == IF ok THEN "clean" ELSE "reset_sha"

\* a slip: the snapshot of the current revision is not taken before the checkout
ReadCurrent_Deferred ==
    /\ pc = "read_current"
    /\ pc' = "fetch_ref"
    /\ UNCHANGED <<eventVars, baseVars, treeVars, detectVars, sizeVars,
                   issueVars, reportVars, failed, lastCmd, lastLog>>

\* line 80: const newSizes = await plugin.readFromDisk(cwd)
ReadCurrent ==
    /\ pc = "read_current"
    /\ newSizes' \in Snapshots
    /\ pc' = "fetch_ref"
    /\ UNCHANGED <<eventVars, baseVars, treeVars, detectVars, oldSizes, diff, body,
                   issueVars, reportVars, failed, lastCmd, lastLog>>

\* lines 82-88: git fetch -n origin ${baseRef}; an absent ref throws before any command
FetchRef ==
    /\ pc = "fetch_ref"
    /\ IF ~Truthy(baseRef)
       THEN /\ lastLog' = "fetching base.ref failed"
            /\ pc' = AfterFetchRef(FALSE)
            /\ UNCHANGED lastCmd
       ELSE \E ok \in BOOLEAN :
              /\ lastCmd' = <<FetchRefCmd, ok>>
              /\ lastLog' = IF ok THEN "successfully fetched base.ref"
                                  ELSE "fetching base.ref failed"
              /\ pc' = AfterFetchRef(ok)
    /\ UNCHANGED <<eventVars, baseVars, treeVars, detectVars, sizeVars, issueVars,
                   reportVars, failed>>

\* lines 89-93: git fetch -n origin ${baseSha}
FetchSha ==
    /\ pc = "fetch_sha"
    /\ \E ok \in BOOLEAN :
          /\ lastCmd' = <<FetchShaCmd, ok>>
          /\ lastLog' = IF ok THEN "successfully fetched base.sha"
                              ELSE "fetching base.sha failed"
          /\ pc' = AfterFetchSha(ok)
    /\ UNCHANGED <<eventVars, baseVars, treeVars, detectVars, sizeVars, issueVars,
                   reportVars, failed>>

\* lines 94-98: git fetch -n
FetchAll ==
    /\ pc = "fetch_all"
    /\ \E ok \in BOOLEAN :
          /\ lastCmd' = <<FetchAllCmd, ok>>
          /\ lastLog' = IF ok THEN lastLog ELSE "fetch failed"
    /\ pc' = "reset_ref"
    /\ UNCHANGED <<eventVars, baseVars, treeVars, detectVars, sizeVars, issueVars,
                   reportVars, failed>>

\* lines 102-106: git reset --hard ${baseRef}; an absent ref throws before any command
ResetRef ==
    /\ pc = "reset_ref"
    /\ lastLog' = "checking out and building base commit"
    /\ IF ~Truthy(baseRef)
       THEN /\ pc' = AfterResetRef(FALSE)
            /\ UNCHANGED <<lastCmd, worktree>>
       ELSE \E ok \in BOOLEAN :
              /\ lastCmd' = <<ResetRefCmd, ok>>
              /\ pc' = AfterResetRef(ok)
              /\ worktree' = IF ok THEN baseRef ELSE worktree
    /\ UNCHANGED <<eventVars, baseVars, cwd, cleanScript, detectVars, sizeVars, issueVars,
                   reportVars, failed>>

\* line 107: git reset --hard ${baseSha}, in the catch and so outside any try
ResetSha ==
    /\ pc = "reset_sha"
    /\ \E ok \in BOOLEAN :
          /\ lastCmd' = <<ResetShaCmd, ok>>
          /\ IF ok
             THEN /\ pc' = "clean"
                  /\ worktree' = baseSha
                  /\ UNCHANGED failed
             ELSE /\ Throw(ExecError(ResetShaCmd))
                  /\ UNCHANGED worktree
    /\ UNCHANGED <<eventVars, baseVars, cwd, cleanScript, detectVars, sizeVars, issueVars,
                   reportVars, lastLog>>

\* a slip: the clean script runs inside a try and its failure is passed over
Clean_NotFatal ==
    /\ pc = "clean"
    /\ cleanScript' \in CleanInputs
    /\ IF Truthy(cleanScript')
       THEN \E ok \in BOOLEAN : lastCmd' = <<CleanCmd(cleanScript'), ok>>
       ELSE UNCHANGED lastCmd
    /\ pc' = "detect_base"
    /\ UNCHANGED <<eventVars, baseVars, cwd, worktree, detectVars, sizeVars, issueVars,
                   reportVars, lastLog, failed>>

\* lines 111-116: the optional clean script, run with the manager detected so far
Clean ==
    /\ pc = "clean"
    /\ cleanScript' \in CleanInputs
    /\ IF Truthy(cleanScript')
       THEN \E ok \in BOOLEAN :
              /\ lastCmd' = <<CleanCmd(cleanScript'), ok>>
              /\ IF ok THEN pc' = "detect_base" /\ UNCHANGED failed
                       ELSE Throw(ExecError(CleanCmd(cleanScript')))
       ELSE /\ pc' = "detect_base"
            /\ UNCHANGED <<lastCmd, failed>>
    /\ UNCHANGED <<eventVars, baseVars, cwd, worktree, detectVars, sizeVars, issueVars,
                   reportVars, lastLog>>

(* ------------------------- the base-revision cycle --------------------- *)
\* lines 120-134: the lockfile checks and the package manager of the base revision
DetectBaseStep ==
    /\ pc = "detect_base"
    /\ yarnLock' \in BOOLEAN
    /\ pnpmLock' \in BOOLEAN
    /\ packageLock' \in BOOLEAN
    /\ packageManager' = DetectBase(yarnLock', pnpmLock', packageLock')[1]
    /\ installScript' = DetectBase(yarnLock', pnpmLock', packageLock')[2]
    /\ pc' = "install_base"
    /\ UNCHANGED <<eventVars, baseVars, treeVars, sizeVars, issueVars, reportVars,
                   failed, lastCmd, lastLog>>

\* lines 136-138
InstallBase ==
    /\ ExecStep("install_base", InstallCmd, "build_base")
    /\ lastLog' = "Installing using"
    /\ UNCHANGED <<eventVars, baseVars, treeVars, detectVars, sizeVars, issueVars, reportVars>>

\* lines 140-142
BuildBase ==
    /\ ExecStep("build_base", BuildCmd, "reset_base")
    /\ UNCHANGED <<eventVars, baseVars, treeVars, detectVars, sizeVars, issueVars,
                   reportVars, lastLog>>

\* a slip: after the base build the tree is put back to the head revision
ResetBase_ToHead ==
    /\ ExecStep("reset_base", RestoreCmd, "read_base")
    /\ worktree' = "head"
    /\ UNCHANGED <<eventVars, baseVars, cwd, cleanScript, detectVars, sizeVars, issueVars,
                   reportVars, lastLog>>

\* line 145
ResetBase ==
    /\ ExecStep("reset_base", RestoreCmd, "read_base")
    /\ UNCHANGED <<eventVars, baseVars, treeVars, detectVars, sizeVars, issueVars,
                   reportVars, lastLog>>

\* line 147: const oldSizes = await plugin.readFromDisk(cwd)
ReadBase ==
    /\ pc = "read_base"
    /\ oldSizes' \in Snapshots
    /\ pc' = "diff"
    /\ UNCHANGED <<eventVars, baseVars, treeVars, detectVars, newSizes, diff, body,
                   issueVars, reportVars, failed, lastCmd, lastLog>>

\* a slip: the two snapshots are handed to getDiff the other way round
DiffStep_Swapped ==
    /\ pc = "diff"
    /\ diff' = getDiff(newSizes, oldSizes)
    /\ body' = CommentBody(diffTable(diff'))
    /\ outputRawMarkdown' = FALSE
    /\ pc' = "report"
    /\ UNCHANGED <<eventVars, baseVars, treeVars, detectVars, newSizes, oldSizes,
                   issueVars, commentId, calls, lostTrack, printed, failed, lastCmd, lastLog>>

\* lines 149-172: the diff, its table and the body of the comment
DiffStep ==
    /\ pc = "diff"
    /\ diff' = getDiff(oldSizes, newSizes)
    /\ body' = CommentBody(diffTable(diff'))
    /\ outputRawMarkdown' = FALSE
    /\ pc' = "report"
    /\ UNCHANGED <<eventVars, baseVars, treeVars, detectVars, newSizes, oldSizes,
                   issueVars, commentId, calls, lostTrack, printed, failed, lastCmd, lastLog>>

(* ------------------------------ reporting ------------------------------ *)
\* a slip: the report is attempted on every event
HasPullRequest_Always(e) == TRUE

\* line 174: the run reports only on a pull-request event
HasPullRequest(e) == ~(e # "pull_request" /\ e # "pull_request_target")

\* a slip: the comment found is never edited, a new one is created each time
TierAfterSearch_AlwaysCreate(id) == "create"

\* lines 193 and 208: update when a comment id is held, create otherwise
TierAfterSearch(id) == IF id # NoComment THEN "update" ELSE "create"

\* lines 205-208: after the edit, create only when the id was cleared
TierAfterUpdate(id) == IF id # NoComment THEN "finish" ELSE "create"

\* lines 189-191: a failed search is logged; no comment id is held
SearchFailed ==
    /\ lastLog' = "Error checking for previous comments"
    /\ UNCHANGED <<commentId, failed>>

\* lines 201-204: a failed edit is logged and clears the comment id
EditFailed ==
    /\ lastLog' = "Error editing previous comment"
    /\ commentId' = NoComment
    /\ UNCHANGED failed

\* a slip: a failed create ends the reporting without the review
CreateFailed_NoReview ==
    /\ lastLog' = "Error creating comment"
    /\ pc' = "finish"
    /\ UNCHANGED failed

\* lines 212-214: a failed create is logged and followed by the review
CreateFailed ==
    /\ lastLog' = "Submitting a PR review comment instead..."
    /\ pc' = "review"
    /\ UNCHANGED failed

\* a slip: the review's error is not caught and reaches the main wrapper
ReviewFailed_Uncaught ==
    /\ pc' = "failed"
    /\ failed' = <<"createReview failed">>
    /\ UNCHANGED <<lastLog, outputRawMarkdown>>

\* lines 224-227: a failed review is logged and asks for the raw print
ReviewFailed ==
    /\ lastLog' = "Error creating PR review."
    /\ outputRawMarkdown' = TRUE
    /\ pc' = "finish"
    /\ UNCHANGED failed

\* lines 174-176: no pull request, nothing is posted
SkipReport ==
    /\ pc = "report"
    /\ ~HasPullRequest(eventName)
    /\ lastLog' = "No PR associated with this action run. Not posting a check or comment."
    /\ outputRawMarkdown' = FALSE
    /\ pc' = "finish"
    /\ UNCHANGED <<eventVars, baseVars, treeVars, detectVars, sizeVars, issueVars,
                   commentId, calls, lostTrack, printed, failed, lastCmd>>

\* lines 178-191: list the issue's comments and look for the previous report
ListComments ==
    /\ pc = "report"
    /\ HasPullRequest(eventName)
    /\ \E ok \in BOOLEAN :
          /\ calls' = Append(calls, <<"listComments", ok>>)
          /\ lostTrack' = (lostTrack \/ ~ok)
          /\ IF ok
             THEN /\ commentId' = ScanComments(comments, Len(comments))
                  /\ UNCHANGED <<lastLog, failed>>
             ELSE SearchFailed
    /\ pc' = TierAfterSearch(commentId')
    /\ UNCHANGED <<eventVars, baseVars, treeVars, detectVars, sizeVars, issueVars,
                   outputRawMarkdown, printed, lastCmd>>

\* a slip: the body of every comment that holds the marker is replaced
WithBody_EveryMarked(list, id, text) ==
    [i \in 1..Len(list) |-> IF HasMarker(list[i].body) THEN [list[i] EXCEPT !.body = text]
                                                       ELSE list[i]]

\* the issue's comments with the body of comment id replaced
WithBody(list, id, text) ==
    [i \in 1..Len(list) |-> IF list[i].id = id THEN [list[i] EXCEPT !.body = text]
                                               ELSE list[i]]

\* lines 193-205: replace the body of the comment found; a failure clears the id
UpdateComment ==
    /\ pc = "update"
    /\ \E ok \in BOOLEAN :
          /\ calls' = Append(calls, <<"updateComment", ok>>)
          /\ lostTrack' = (lostTrack \/ ~ok)
          /\ IF ok
             THEN /\ comments' = WithBody(comments, commentId, body)
                  /\ lastLog' = "Updating previous comment"
                  /\ UNCHANGED <<commentId, failed>>
             ELSE /\ EditFailed
                  /\ UNCHANGED comments
    /\ pc' = TierAfterUpdate(commentId')
    /\ UNCHANGED <<eventVars, baseVars, treeVars, detectVars, sizeVars, reviews,
                   outputRawMarkdown, printed, lastCmd>>

\* the comment GitHub stores for a createComment call made with repo-token
NewComment(list, text) == [id |-> Len(list) + 1, type |-> tokenType, body |-> text]

\* lines 208-214: no previous comment, or the edit failed: create one
CreateComment ==
    /\ pc = "create"
    /\ \E ok \in BOOLEAN :
          /\ calls' = Append(calls, <<"createComment", ok>>)
          /\ IF ok
             THEN /\ comments' = Append(comments, NewComment(comments, body))
                  /\ lastLog' = "Creating new comment"
                  /\ pc' = "finish"
                  /\ UNCHANGED failed
             ELSE /\ CreateFailed
                  /\ UNCHANGED comments
    /\ UNCHANGED <<eventVars, baseVars, treeVars, detectVars, sizeVars, reviews,
                   commentId, outputRawMarkdown, lostTrack, printed, lastCmd>>

\* lines 215-227: the review of kind COMMENT; its failure asks for the raw print
CreateReview ==
    /\ pc = "review"
    /\ \E ok \in BOOLEAN :
          /\ calls' = Append(calls, <<"createReview", ok>>)
          /\ IF ok
             THEN /\ reviews' = Append(reviews, [event |-> "COMMENT", body |-> body])
                  /\ pc' = "finish"
                  /\ UNCHANGED <<outputRawMarkdown, lastLog, failed>>
             ELSE /\ ReviewFailed
                  /\ UNCHANGED reviews
    /\ UNCHANGED <<eventVars, baseVars, treeVars, detectVars, sizeVars, comments,
                   commentId, lostTrack, printed, lastCmd>>

\* lines 233-244: the raw print when asked for, then "All done!"
Finish ==
    /\ pc = "finish"
    /\ printed' = IF outputRawMarkdown THEN body ELSE printed
    /\ lastLog' = "All done!"
    /\ pc' = "done"
    /\ UNCHANGED <<eventVars, baseVars, treeVars, detectVars, sizeVars, issueVars,
                   commentId, outputRawMarkdown, calls, lostTrack, failed, lastCmd>>

\* the workflow runs the action again for the same event source: a new head commit,
\* the same trigger and base, the issue as the runs before left it
StartRun ==
    /\ pc \in {"done", "failed"}
    /\ runs < MaxRuns
    /\ runs' = runs + 1
    /\ priorRunsClean' = (priorRunsClean /\ pc = "done"
                           /\ \A i \in 1..Len(calls) : calls[i][2])
    /\ pc' = "resolve"
    /\ baseSha' = Undefined /\ baseRef' = Undefined
    /\ cwd' = "workspace"
    /\ worktree' = "head"
    /\ cleanScript' = Undefined
    /\ yarnLock' = FALSE /\ pnpmLock' = FALSE /\ packageLock' = FALSE
    /\ packageManager' = Undefined /\ installScript' = <<>>
    /\ newSizes' = NotRead /\ oldSizes' = NotRead
    /\ diff' = <<>> /\ body' = <<>>
    /\ commentId' = NoComment /\ outputRawMarkdown' = FALSE
    /\ failed' = NotFailed
    /\ lastCmd' = NoCmd
    /\ lastLog' = Undefined
    /\ calls' = <<>>
    /\ printed' = <<>>
    /\ reviews' = <<>>
    /\ UNCHANGED <<eventName, payload, tokenType, comments, lostTrack>>

Next ==
    \/ Resolve
    \/ Chdir
    \/ DetectCurrentStep
    \/ InstallCurrent
    \/ BuildCurrent
    \/ ResetCurrent
    \/ ReadCurrent
    \/ FetchRef
    \/ FetchSha
    \/ FetchAll
    \/ ResetRef
    \/ ResetSha
    \/ Clean
    \/ DetectBaseStep
    \/ InstallBase
    \/ BuildBase
    \/ ResetBase
    \/ ReadBase
    \/ DiffStep
    \/ SkipReport
    \/ ListComments
    \/ UpdateComment
    \/ CreateComment
    \/ CreateReview
    \/ Finish
    \/ StartRun

Spec == Init /\ [][Next]_vars

\* every await of run() resumes: each external call returns or throws in the end,
\* and the workflow starts the runs it has been asked for
FairSpec == Spec /\ WF_vars(Next)

(* ------------------------------ properties ----------------------------- *)
ReportPositions == {"report", "update", "create", "review", "finish", "done"}
Called(name) == \E i \in 1..Len(calls) : calls[i][1] = name
CallFailed(name) == \E i \in 1..Len(calls) : calls[i] = <<name, FALSE>>
LastCall == calls[Len(calls)]

\* the comments of the issue that a Bot wrote and that hold the marker
ReportIndexes == {i \in 1..Len(comments) : comments[i].type = "Bot" /\ HasMarker(comments[i].body)}

\* C1: for an event other than push, pull_request and pull_request_target the run
\* fails with the unsupported-event error in its first step: the working directory
\* is not changed, no lockfile is looked for, no command and no comment-API call is
\* made, and the run is nowhere but at its start or failed with that error.
C1_UnsupportedEventFailsFirst ==
    (eventName \notin {"push", "pull_request", "pull_request_target"}) =>
        /\ pc \in {"resolve", "failed"}
        /\ pc = "failed" => failed = UnsupportedError
        /\ pc = "resolve" => failed = NotFailed
        /\ cwd = "workspace"
        /\ packageManager = Undefined /\ installScript = <<>>
        /\ ~yarnLock /\ ~pnpmLock /\ ~packageLock
        /\ lastCmd = NoCmd
        /\ calls = <<>> /\ reviews = <<>> /\ printed = <<>>
        /\ newSizes = NotRead /\ oldSizes = NotRead
        /\ lastLog = Undefined

C1_Witness ==
    /\ eventName = "issue_comment"
    /\ pc = "failed"
    /\ failed = UnsupportedError

\* C2: once the diff is rendered (the body of the report exists) the run cannot
\* fail: setFailed is not called whatever the comment-API calls answer, the run is
\* at a reporting position where a step is enabled or it is done, and when it is
\* done its last log line is "All done!", also after the raw print.
C2_ReportingNeverFails ==
    (body # <<>>) =>
        /\ failed = NotFailed
        /\ pc \in ReportPositions
        /\ pc # "done" => ENABLED Next
        /\ pc = "done" => lastLog = "All done!"
        /\ printed # <<>> => (pc = "done" /\ lastLog = "All done!")

C2_Witness ==
    /\ pc = "done"
    /\ calls = << <<"listComments", FALSE>>, <<"createComment", FALSE>>,
                  <<"createReview", FALSE>> >>
    /\ printed = body /\ body # <<>>
    /\ failed = NotFailed

\* C6: on a push the run makes no comment-API call, submits no review, leaves the
\* issue's comments as they were and prints no raw body; after the diff it goes
\* straight to the end and completes with "All done!" and without setFailed.
C6_PushPostsNothing ==
    (eventName = "push") =>
        /\ calls = <<>> /\ reviews = <<>> /\ printed = <<>>
        /\ comments \in InitialComments
        /\ commentId = NoComment /\ ~outputRawMarkdown
        /\ pc \in {"report", "finish", "done"} => (body # <<>> /\ failed = NotFailed)
        /\ pc \notin {"update", "create", "review"}
        /\ pc = "done" => lastLog = "All done!"

C6_Witness ==
    /\ eventName = "push"
    /\ pc = "done"
    /\ lastLog = "All done!"
    /\ newSizes # NotRead /\ oldSizes # NotRead

\* C7: when the install, the build or the restoring git reset --hard has failed, in
\* either cycle, the run is failed with the message of that command's error and
\* nothing later has happened: the snapshot of that cycle is not read, no diff or
\* body exists, and no comment-API call, review or raw print was made.
BuildStageCmds == {InstallCmd, BuildCmd, RestoreCmd}
C7_BuildFailureIsFatal ==
    (lastCmd # NoCmd /\ lastCmd[1] \in BuildStageCmds /\ ~lastCmd[2]) =>
        /\ pc = "failed"
        /\ failed = ExecError(lastCmd[1])
        /\ oldSizes = NotRead
        /\ worktree = "head" => newSizes = NotRead
        /\ diff = <<>> /\ body = <<>>
        /\ calls = <<>> /\ reviews = <<>> /\ printed = <<>>
        /\ commentId = NoComment

C7_Witness ==
    /\ pc = "failed"
    /\ lastCmd = <<BuildCmd, FALSE>>
    /\ worktree # "head"
    /\ newSizes # NotRead /\ oldSizes = NotRead

\* the step gives these words to exec
Runs(words) == lastCmd' # lastCmd /\ lastCmd' # NoCmd /\ lastCmd'[1] = words
FetchPositions == {"fetch_ref", "fetch_sha", "fetch_all"}

\* C8: the fetch is a three-tier fallback. The fetch by ref is the first tier and is
\* run only with a ref (an absent ref runs no command and passes to the second
\* tier; with neither ref nor sha the second tier's command reads like the first's);
\* the fetch by sha is run only after the first tier failed; the bulk fetch
\* only after the fetch by sha failed; a fetch that succeeds is followed by the
\* reset and by no further fetch; and no step of the fetch stage fails the run, the
\* failure of all three tiers included.
C8_FetchTiers ==
    [][ /\ Runs(FetchRefCmd) =>
              \/ pc = "fetch_ref" /\ Truthy(baseRef)
              \/ pc = "fetch_sha" /\ FetchShaCmd = FetchRefCmd
        /\ (pc = "fetch_ref" /\ ~Truthy(baseRef)) => (lastCmd' = lastCmd /\ pc' = "fetch_sha")
        /\ Runs(FetchShaCmd) =>
              (pc = "fetch_sha" /\ (lastCmd = <<FetchRefCmd, FALSE>> \/ ~Truthy(baseRef)))
        /\ Runs(FetchAllCmd) => (pc = "fetch_all" /\ lastCmd = <<FetchShaCmd, FALSE>>)
        /\ (pc \in FetchPositions) =>
              (failed' = NotFailed /\ pc' \in FetchPositions \cup {"reset_ref"})
        /\ (pc \in FetchPositions /\ lastCmd' # lastCmd /\ lastCmd'[2]) => pc' = "reset_ref"
        /\ (pc = "fetch_all") => pc' = "reset_ref"
      ]_vars

C8_Witness ==
    /\ pc = "reset_ref"
    /\ Truthy(baseRef)
    /\ lastCmd = <<FetchShaCmd, TRUE>>
    /\ failed = NotFailed

\* C9: at the reset position the reset to the ref is run whenever there is a ref,
\* whatever the fetches did; the reset to the sha is run exactly when the reset to
\* the ref failed or the ref is absent; and when the reset to the sha fails the run
\* is failed with that error, the tree still at the head, and neither the clean
\* script, nor the base detection, install, build and snapshot, nor any report
\* has happened.
C9_ResetFallback ==
    [][ /\ Runs(ResetRefCmd) =>
              \/ pc = "reset_ref" /\ Truthy(baseRef)
              \/ pc = "reset_sha" /\ ResetShaCmd = ResetRefCmd
        /\ (pc = "reset_ref" /\ Truthy(baseRef)) => Runs(ResetRefCmd)
        /\ (pc = "reset_ref") =>
              /\ pc' \in {"reset_sha", "clean"}
              /\ pc' = "reset_sha" <=> (~Truthy(baseRef) \/ lastCmd' = <<ResetRefCmd, FALSE>>)
              /\ pc' = "clean" => worktree' = baseRef
        /\ Runs(ResetShaCmd) =>
              (pc = "reset_sha" /\ (lastCmd = <<ResetRefCmd, FALSE>> \/ ~Truthy(baseRef)))
        /\ (pc = "reset_sha") => Runs(ResetShaCmd)
        /\ (lastCmd' = <<ResetShaCmd, FALSE>>) =>
              /\ pc' = "failed" /\ failed' = ExecError(ResetShaCmd)
              /\ worktree' = "head"
              /\ oldSizes' = NotRead /\ body' = <<>>
              /\ calls' = <<>> /\ reviews' = <<>> /\ printed' = <<>>
        /\ (lastCmd = <<ResetShaCmd, FALSE>>) => (pc' = "resolve" /\ lastCmd' = NoCmd)
      ]_vars

C9_Witness ==
    /\ pc = "failed"
    /\ Truthy(baseRef)
    /\ lastCmd = <<ResetShaCmd, FALSE>>
    /\ failed = ExecError(ResetShaCmd)

\* C10: the manager and the install command follow the priority yarn > pnpm >
\* package-lock > default for each of the 8 combinations of lockfiles found, at the
\* current revision and at the base revision alike.
ExpectedProfile ==
    [files \in SUBSET LockFiles |->
        CASE files = {} -> <<"npm", <<"npm", "install">>>>
          [] files = {"package-lock.json"} -> <<"npm", <<"npm", "ci">>>>
          [] files = {"pnpm-lock.yaml"} -> <<"pnpm", <<"pnpm", "install", "--frozen-lockfile">>>>
          [] files = {"pnpm-lock.yaml", "package-lock.json"} ->
                <<"pnpm", <<"pnpm", "install", "--frozen-lockfile">>>>
          [] files = {"yarn.lock"} -> <<"yarn", <<"yarn", "--frozen-lockfile">>>>
          [] files = {"yarn.lock", "package-lock.json"} -> <<"yarn", <<"yarn", "--frozen-lockfile">>>>
          [] files = {"yarn.lock", "pnpm-lock.yaml"} -> <<"yarn", <<"yarn", "--frozen-lockfile">>>>
          [] files = LockFiles -> <<"yarn", <<"yarn", "--frozen-lockfile">>>>]

FoundLockfiles ==
    (IF yarnLock THEN {"yarn.lock"} ELSE {})
    \cup (IF pnpmLock THEN {"pnpm-lock.yaml"} ELSE {})
    \cup (IF packageLock THEN {"package-lock.json"} ELSE {})

C10_DetectionPriority ==
    /\ (pc \in {"install_current", "install_base"}) =>
          <<packageManager, installScript>> = ExpectedProfile[FoundLockfiles]
    /\ (packageManager # Undefined) =>
          <<packageManager, installScript>> = ExpectedProfile[FoundLockfiles]
    /\ (lastCmd # NoCmd /\ pc \in {"build_current", "build_base"} /\ lastCmd[2]) =>
          lastCmd[1] = ExpectedProfile[FoundLockfiles][2]

C10_Witness ==
    /\ pc = "build_base"
    /\ yarnLock /\ pnpmLock /\ packageLock
    /\ packageManager = "yarn"
    /\ lastCmd = << <<"yarn", "--frozen-lockfile">>, TRUE >>

ReportIds == {comments[i].id : i \in ReportIndexes}
Creates == {i \in 1..Len(calls) : calls[i][1] = "createComment"}

\* C3 as stated: at most one comment of a Bot that bears the marker exists on the
\* issue after any sequence of runs.
C3_AtMostOneReport == Cardinality(ReportIndexes) <= 1

\* C3 as amended: as long as no listing and no edit of the report has failed in any
\* run, at most one comment of a Bot bearing the marker exists; a run is about to
\* create a comment only when it holds no comment id, which is after a failed
\* listing, after a listing without such a comment, or after a failed edit; and an
\* edit replaces the body of the comment found in place, the other comments and the
\* number of comments unchanged.
C3_OneReportWhileTracked ==
    /\ [](~lostTrack => Cardinality(ReportIndexes) <= 1)
    /\ []((pc = "create") =>
            /\ commentId = NoComment
            /\ \/ LastCall = <<"listComments", FALSE>>
               \/ LastCall = <<"updateComment", FALSE>>
               \/ (LastCall = <<"listComments", TRUE>> /\ ReportIndexes = {}))
    /\ [][ (calls' = Append(calls, <<"updateComment", TRUE>>)) =>
              /\ commentId \in ReportIds
              /\ Len(comments') = Len(comments)
              /\ \A i \in 1..Len(comments) :
                    IF comments[i].id = commentId
                    THEN comments'[i] = [comments[i] EXCEPT !.body = body]
                    ELSE comments'[i] = comments[i]
         ]_vars

C3_Witness ==
    /\ runs = 2 /\ pc = "done"
    /\ tokenType = "Bot" /\ ~lostTrack
    /\ Len(comments) = 1 /\ Cardinality(ReportIndexes) = 1
    /\ calls = << <<"listComments", TRUE>>, <<"updateComment", TRUE>> >>
    /\ comments[1].body = body

\* C4 as stated: with a comment of a Bot bearing the marker on the issue, the run
\* never comes to create a comment.
C4_NeverCreatesBesideReport == (pc = "create") => (ReportIndexes = {})

\* C4 as amended: after a listing that succeeded, the run edits when the issue holds
\* a comment of a Bot bearing the marker, and the comment it edits is such a
\* comment; it comes to create beside such a comment only after the listing or the
\* edit failed; without such a comment it creates; a run calls createComment at
\* most once, and a create that succeeds appends exactly one comment, whose body is
\* the report and bears the marker, while a create that fails appends none.
C4_UpdateBeforeCreate ==
    /\ []((calls = << <<"listComments", TRUE>> >>) =>
            pc = (IF ReportIndexes # {} THEN "update" ELSE "create"))
    /\ []((pc = "update") =>
            (calls = << <<"listComments", TRUE>> >> /\ commentId \in ReportIds))
    /\ []((pc = "create" /\ ReportIndexes # {}) =>
            \/ calls = << <<"listComments", FALSE>> >>
            \/ calls = << <<"listComments", TRUE>>, <<"updateComment", FALSE>> >>)
    /\ [](Cardinality(Creates) <= 1)
    /\ [][ /\ (calls' = Append(calls, <<"createComment", TRUE>>)) =>
                /\ Len(comments') = Len(comments) + 1
                /\ SubSeq(comments', 1, Len(comments)) = comments
                /\ comments'[Len(comments')].body = body
                /\ HasMarker(comments'[Len(comments')].body)
           /\ (calls' = Append(calls, <<"createComment", FALSE>>)) => comments' = comments
         ]_vars

C4_Witness ==
    /\ pc = "create"
    /\ ReportIndexes # {}
    /\ calls = << <<"listComments", TRUE>>, <<"updateComment", FALSE>> >>

\* C5: the comment-API calls of a run come in the order search, update, create,
\* review: the search is first; the update follows only a search that succeeded; the
\* create follows only a search or a failed update; the review follows only a failed
\* create and carries kind COMMENT and the same body. A failed search, a failed
\* update and a search without a match lead to the create, a failed create to the
\* review, and a run on a pull request that completes has exactly one of the
\* outcomes updated, created, reviewCommented, printedRaw; the body is printed raw
\* exactly when both the create and the review failed.
InOrder(i) ==
    IF i = 1 THEN calls[1][1] = "listComments"
    ELSE CASE calls[i][1] = "updateComment" -> calls[i - 1] = <<"listComments", TRUE>>
           [] calls[i][1] = "createComment" ->
                 (calls[i - 1][1] = "listComments" \/ calls[i - 1] = <<"updateComment", FALSE>>)
           [] calls[i][1] = "createReview" -> calls[i - 1] = <<"createComment", FALSE>>
           [] OTHER -> FALSE

NextTier ==
    CASE LastCall = <<"listComments", FALSE>> -> pc = "create"
      [] LastCall = <<"listComments", TRUE>> -> pc \in {"update", "create"}
      [] LastCall = <<"updateComment", FALSE>> -> pc = "create"
      [] LastCall = <<"createComment", FALSE>> -> pc = "review"
      [] OTHER -> pc \in {"finish", "done"}

Outcomes ==
    {o \in {"updated", "created", "reviewCommented", "printedRaw"} :
        \/ o = "updated" /\ LastCall = <<"updateComment", TRUE>>
        \/ o = "created" /\ LastCall = <<"createComment", TRUE>>
        \/ o = "reviewCommented" /\ reviews = << [event |-> "COMMENT", body |-> body] >>
        \/ o = "printedRaw" /\ printed = body}

C5_TierOrder ==
    /\ \A i \in 1..Len(calls) : InOrder(i)
    /\ calls # <<>> => NextTier
    /\ (pc \in {"update", "create", "review"}) => calls # <<>>
    /\ (reviews # <<>>) <=> (calls # <<>> /\ LastCall = <<"createReview", TRUE>>)
    /\ (reviews # <<>>) => reviews = << [event |-> "COMMENT", body |-> body] >>
    /\ (outputRawMarkdown <=> (CallFailed("createComment") /\ CallFailed("createReview")))
    /\ (pc = "done" /\ eventName \in {"pull_request", "pull_request_target"}) =>
          /\ Cardinality(Outcomes) = 1
          /\ (printed # <<>>) <=> (CallFailed("createComment") /\ CallFailed("createReview"))
          /\ (printed # <<>>) => printed = body
    /\ (pc # "done") => printed = <<>>

C5_Witness ==
    /\ pc = "done"
    /\ calls = << <<"listComments", TRUE>>, <<"updateComment", FALSE>>,
                  <<"createComment", FALSE>>, <<"createReview", FALSE>> >>
    /\ printed = body /\ body # <<>>
    /\ Outcomes = {"printedRaw"}

\* the positions of run() in the order of its text
StepOrder ==
    <<"resolve", "chdir", "detect_current", "install_current", "build_current",
      "reset_current", "read_current", "fetch_ref", "fetch_sha", "fetch_all",
      "reset_ref", "reset_sha", "clean", "detect_base", "install_base", "build_base",
      "reset_base", "read_base", "diff", "report", "update", "create", "review",
      "finish", "done">>
PositionOf ==
    [p \in {StepOrder[i] : i \in 1..Len(StepOrder)} |->
        CHOOSE i \in 1..Len(StepOrder) : StepOrder[i] = p]
Position(p) == PositionOf[p]
CheckoutCmds == {FetchRefCmd, FetchShaCmd, FetchAllCmd, ResetRefCmd, ResetShaCmd}

\* C11: within a run every step moves forward in the order resolve, current cycle
\* (detect, install, build, reset, snapshot), fetch and reset to the base, clean
\* script, base cycle, diff and body, report; the current snapshot is read before
\* any fetch or reset towards the base; the base snapshot is read only with the tree
\* hard-reset to the base ref or sha; the clean script is read only after that
\* reset; the body is the rendering of the diff of both snapshots; and no
\* comment-API call happens before both snapshots are read and the body exists.
C11_StepOrder ==
    /\ []( /\ (pc # "failed") =>
                /\ (newSizes # NotRead) <=> (Position(pc) > Position("read_current"))
                /\ (oldSizes # NotRead) <=> (Position(pc) > Position("read_base"))
                /\ (body # <<>>) <=> (Position(pc) > Position("diff"))
           /\ (lastCmd # NoCmd /\ lastCmd[1] \in CheckoutCmds) => newSizes # NotRead
           /\ (worktree # "head") => newSizes # NotRead
           /\ (cleanScript # Undefined) => worktree # "head"
           /\ (oldSizes # NotRead) =>
                 (newSizes # NotRead /\ worktree # "head" /\ worktree \in {baseRef, baseSha})
           /\ (body # <<>>) =>
                 (oldSizes # NotRead /\ body = CommentBody(diffTable(getDiff(oldSizes, newSizes))))
           /\ (calls # <<>> \/ reviews # <<>> \/ printed # <<>>) =>
                 (newSizes # NotRead /\ oldSizes # NotRead /\ body # <<>>) )
    /\ [][ (pc' \notin {"failed", "resolve"}) => Position(pc') > Position(pc) ]_vars

C11_Witness ==
    /\ pc = "done"
    /\ cleanScript = "clean"
    /\ worktree = baseSha
    /\ newSizes # NotRead /\ oldSizes # NotRead
    /\ calls = << <<"listComments", TRUE>>, <<"createComment", TRUE>> >>

\* C12 as stated: once the resolution of a push, pull_request or
\* pull_request_target event is past, the base ref and sha are those of the payload
\* (ref and before of a push, base.ref and base.sha of a pull request) and at least
\* one of the two is present.
C12_TargetPresent ==
    (pc # "resolve" /\ eventName \in {"push", "pull_request", "pull_request_target"}) =>
        /\ baseRef = (IF eventName = "push" THEN payload.ref ELSE payload.pr_base_ref)
        /\ baseSha = (IF eventName = "push" THEN payload.before ELSE payload.pr_base_sha)
        /\ (Truthy(baseRef) \/ Truthy(baseSha))

\* the newest comment of a Bot that holds the marker
NewestReport == CHOOSE i \in ReportIndexes : \A j \in ReportIndexes : j <= i

\* C13: with more than one comment of a Bot bearing the marker in the listing, the
\* comment id the search returns and the update is called with is that of the last
\* of them; a successful update replaces the body of that comment with the report
\* and leaves every older such comment, and every other comment, as it was.
C13_NewestReportUpdated ==
    /\ []((pc = "update") =>
            (ReportIndexes # {} /\ commentId = comments[NewestReport].id))
    /\ [][ (calls' = Append(calls, <<"updateComment", TRUE>>)) =>
              /\ Len(comments') = Len(comments)
              /\ comments'[NewestReport] = [comments[NewestReport] EXCEPT !.body = body]
              /\ \A i \in 1..Len(comments) : i # NewestReport => comments'[i] = comments[i]
         ]_vars

C13_Witness ==
    /\ Cardinality(ReportIndexes) >= 2
    /\ pc = "done"
    /\ calls = << <<"listComments", TRUE>>, <<"updateComment", TRUE>> >>
    /\ comments[NewestReport].body = body
    /\ comments[1].body # body

Updates == {i \in 1..Len(calls) : calls[i][1] = "updateComment"}
Modified == {i \in 1..Len(comments) : comments'[i] # comments[i]}

\* C14: no step removes a comment or changes the id or the author of one; a step
\* changes at most one comment that exists, that comment is of a Bot and bears the
\* marker, and the step is a successful updateComment; a run calls updateComment at
\* most once; so comments of people that quote the marker and Bot comments without
\* it stay as they are, and the issue's comments never get fewer.
C14_OnlyTheReportIsModified ==
    /\ [](Cardinality(Updates) <= 1)
    /\ [][ /\ Len(comments') >= Len(comments)
           /\ \A i \in 1..Len(comments) :
                 /\ comments'[i].id = comments[i].id
                 /\ comments'[i].type = comments[i].type
           /\ Cardinality(Modified) <= 1
           /\ Modified \subseteq ReportIndexes
           /\ (Modified # {}) => calls' = Append(calls, <<"updateComment", TRUE>>)
         ]_vars

C14_Witness ==
    /\ pc = "done"
    /\ calls = << <<"listComments", TRUE>>, <<"updateComment", TRUE>> >>
    /\ Len(comments) = 3
    /\ comments[1].body = body /\ body # <<Heading, Intro, Marker>>
    /\ comments[2] = [id |-> 2, type |-> "User", body |-> <<"please review", Marker>>]
    /\ comments[3] = [id |-> 3, type |-> "Bot", body |-> <<"coverage report">>]

NoCallFailed == \A i \in 1..Len(calls) : calls[i][2]
Searched == << <<"listComments", TRUE>> >>

IsCleanCmd(words) == Len(words) = 3 /\ words[2] = "run" /\ words[3] = "clean"
CleanRan == lastCmd # NoCmd /\ IsCleanCmd(lastCmd[1])
ResetToBaseCmds == {ResetRefCmd, ResetShaCmd}

\* C16: the clean-script input is read only with the tree hard-reset to the base.
\* When it is set, the clean command is the one command between that reset and the
\* detection of the base revision: it has just run and succeeded when the run is
\* about to detect, and it is the last command run nowhere else but there, before
\* the base install, or in a run it failed. When it is not set, the run is about to
\* detect with the successful reset as its last command, and no clean command is
\* ever the last command run. When the clean command failed, the run is failed
\* with that command's error, and the base install, build, snapshot, diff and
\* report have not happened.
C16_CleanScript ==
    /\ (cleanScript # Undefined) =>
          (worktree # "head" /\ worktree \in {baseRef, baseSha} /\ newSizes # NotRead)
    /\ (pc # "failed") => ((cleanScript # Undefined) <=> (Position(pc) > Position("clean")))
    /\ (pc = "detect_base" /\ Truthy(cleanScript)) =>
          lastCmd = <<CleanCmd(cleanScript), TRUE>>
    /\ (pc = "detect_base" /\ ~Truthy(cleanScript)) =>
          (lastCmd[1] \in ResetToBaseCmds /\ lastCmd[2])
    /\ CleanRan =>
          /\ Truthy(cleanScript)
          /\ pc \in {"detect_base", "install_base", "failed"}
          /\ (pc # "install_base") => lastCmd[1] = CleanCmd(cleanScript)
          /\ (pc = "failed") <=> ~lastCmd[2]
    /\ (cleanScript = Empty) => ~CleanRan
    /\ (CleanRan /\ ~lastCmd[2]) =>
          /\ failed = ExecError(lastCmd[1])
          /\ oldSizes = NotRead /\ diff = <<>> /\ body = <<>>
          /\ calls = <<>> /\ reviews = <<>> /\ printed = <<>>

C16_Witness ==
    /\ pc = "failed"
    /\ cleanScript = "clean"
    /\ lastCmd = << <<"pnpm", "run", "clean">>, FALSE >>
    /\ failed = ExecError(<<"pnpm", "run", "clean">>)

StatusIn(d, a) == {d[i].status : i \in {k \in 1..Len(d) : d[k].asset = a}}

\* C17: the snapshot read with the tree at the head revision (newSizes) is the
\* 'after' side of the diff and the snapshot read with the tree at the base
\* (oldSizes) its 'before' side: newSizes is assigned only by the read before the
\* checkout and oldSizes only by the read after it, neither changes afterwards, and
\* once the diff exists it has one record per asset of either snapshot, where an
\* asset only in newSizes is "added", an asset only in oldSizes is "removed", and an
\* asset in both is neither.
C17_BaseIsBefore ==
    /\ []((pc \in ReportPositions) =>
            /\ diff = getDiff(oldSizes, newSizes)
            /\ \A a \in DOMAIN newSizes \ DOMAIN oldSizes : StatusIn(diff, a) = {"added"}
            /\ \A a \in DOMAIN oldSizes \ DOMAIN newSizes : StatusIn(diff, a) = {"removed"}
            /\ \A a \in DOMAIN oldSizes \cap DOMAIN newSizes :
                  StatusIn(diff, a) \cap {"added", "removed"} = {}
            /\ \A i \in 1..Len(diff) : diff[i].asset \in DOMAIN oldSizes \cup DOMAIN newSizes)
    /\ [][ /\ (newSizes' # newSizes) =>
                 \/ pc = "read_current" /\ worktree = "head" /\ newSizes = NotRead
                 \/ pc' = "resolve" /\ newSizes' = NotRead
           /\ (oldSizes' # oldSizes) =>
                 \/ pc = "read_base" /\ worktree # "head" /\ oldSizes = NotRead
                 \/ pc' = "resolve" /\ oldSizes' = NotRead
         ]_vars

C17_Witness ==
    /\ pc = "done"
    /\ "a.js" \in DOMAIN newSizes /\ oldSizes = <<>>
    /\ diff = << [asset |-> "a.js", status |-> "added"] >>

Ended == pc \in {"done", "failed"}

\* C18: under FairSpec every run that starts ends, done or failed; a step never
\* stays at or returns to a position of the run, so each command and call position
\* is executed at most once per run; an ended run takes no further step of its own
\* (only the next run starts); and the two ends exclude each other: a run that is
\* done has logged "All done!" and setFailed was not called, a failed run has
\* called setFailed and has not logged "All done!".
C18_EveryRunEnds ==
    /\ [](pc = "resolve" => <>Ended)
    /\ []( /\ (pc = "done") => (failed = NotFailed /\ lastLog = "All done!")
           /\ (pc = "failed") => (failed # NotFailed /\ lastLog # "All done!")
           /\ (failed # NotFailed) => pc = "failed" )
    /\ [][ /\ pc' # pc
           /\ (pc' \notin {"failed", "resolve"}) => Position(pc') > Position(pc)
           /\ Ended => (pc' = "resolve" /\ runs' = runs + 1)
         ]_vars

C18_Witness ==
    /\ runs = MaxRuns
    /\ pc = "failed"
    /\ failed = ExecError(RestoreCmd)
    /\ oldSizes = NotRead /\ newSizes # NotRead

\* C19: the lockfile answers, the package manager and the install command are
\* assigned at two places only: at the first detection, with the tree at the head
\* revision, and at the second, with the tree reset to the base and after the
\* clean-script input has been read and the clean command, if any, has run. The
\* clean command is therefore run with the manager of the first detection, and a
\* run whose base revision has other lockfiles goes on to install and build the
\* base with a manager other than the one its clean command was run with.
C19_CleanUsesCurrentManager ==
    /\ []( (CleanRan /\ pc # "install_base") =>
              /\ lastCmd[1][1] = packageManager
              /\ packageManager = DetectCurrent(yarnLock, pnpmLock, packageLock)[1] )
    /\ []( (pc = "detect_base") =>
              /\ cleanScript # Undefined
              /\ packageManager = DetectCurrent(yarnLock, pnpmLock, packageLock)[1] )
    /\ [][ /\ (detectVars' # detectVars) =>
                 \/ pc = "detect_current" /\ worktree = "head" /\ cleanScript = Undefined
                 \/ pc = "detect_base" /\ worktree # "head" /\ cleanScript # Undefined
                 \/ pc' = "resolve"
           /\ (pc = "clean") =>
                 /\ detectVars' = detectVars
                 /\ Truthy(cleanScript') => lastCmd'[1] = <<packageManager, "run", cleanScript'>>
           /\ (pc = "install_base") =>
                 (lastCmd'[1] = DetectBase(yarnLock, pnpmLock, packageLock)[2]
                  /\ lastCmd'[1][1] = packageManager)
         ]_vars

C19_Witness ==
    /\ pc = "install_base"
    /\ cleanScript = "clean"
    /\ lastCmd = << <<"yarn", "run", "clean">>, TRUE >>
    /\ yarnLock = FALSE /\ pnpmLock = TRUE
    /\ packageManager = "pnpm"
    /\ lastCmd = << <<"yarn", "run", "clean">>, TRUE >>
    /\ packageManager = "pnpm"

\* C20: once a hard reset to the base ref or sha has succeeded the tree stays where
\* that reset put it for the rest of the run: no later step of the run changes it,
\* and from the clean-script position on, at completion and in any later failure
\* included, the tree is at the base ref or sha and not at the head revision. Only
\* the next run starts from the head again.
C20_TreeStaysAtBase ==
    /\ []( /\ (pc # "failed" /\ Position(pc) >= Position("clean")) =>
                 (worktree # "head" /\ worktree \in {baseRef, baseSha})
           /\ (pc # "failed" /\ Position(pc) <= Position("reset_ref")) => worktree = "head"
           /\ (pc = "failed" /\ (cleanScript # Undefined \/ oldSizes # NotRead)) =>
                 (worktree # "head" /\ worktree \in {baseRef, baseSha}) )
    /\ [][ /\ (worktree # "head") => (worktree' = worktree \/ pc' = "resolve")
           /\ (worktree' # worktree /\ pc' # "resolve") =>
                 /\ pc \in {"reset_ref", "reset_sha"}
                 /\ lastCmd' \in {<<ResetRefCmd, TRUE>>, <<ResetShaCmd, TRUE>>}
                 /\ worktree' = lastCmd'[1][4]
         ]_vars

C20_Witness ==
    /\ pc = "failed"
    /\ worktree = "main"
    /\ lastCmd = <<RestoreCmd, FALSE>>
    /\ cleanScript = Empty
====
